---- MODULE Spec2Model ----
(***************************************************************************)
(* KWisper (src/OLD/kwisper.py): a double-tap-and-hold of the Option key   *)
(* records audio, the release hands the recording to a transcription       *)
(* worker thread, and the worker pastes the text through the clipboard.    *)
(*                                                                         *)
(* Threads of the program:                                                 *)
(*   - the pynput listener thread, which runs on_press / on_release one    *)
(*     event at a time (lpc is its position);                              *)
(*   - the recording thread started by start_recording (rpc) and the       *)
(*     PortAudio callback it owns (cb);                                    *)
(*   - one transcription worker per transcribe_and_paste call (wk).        *)
(*                                                                         *)
(* Time is counted in units of 10 ms: time.time() is the variable now.     *)
(* Strings are sequences of characters; a Python Optional[str] is <<>>     *)
(* (None) or <<s>>.                                                        *)
(***************************************************************************)
EXTENDS Integers, Sequences, FiniteSets, TLC

\* self.opt_tap_threshold = 1.0 s and self.min_event_interval = 0.05 s, in 10 ms units
opt_tap_threshold == 100
min_event_interval == 5

\* time.time() when the application starts (any value above the tap threshold)
StartTime == 1000
\* the instants, relative to StartTime, at which the environment delivers key events
Offsets == {0, 2, 5, 30, 35, 100, 101, 150}
Instants == {StartTime + d : d \in Offsets}
\* how many recordings the model starts, and how many audio blocks the device delivers
MaxSessions == 2
MaxBlocks == 2

None == <<>>
Some(s) == <<s>>
\* Python truthiness of an Optional[str]: neither None nor ""
Truthy(o) == o # None /\ o[1] # <<>>

SPACE == " "
RECURSIVE LStrip(_)
LStrip(s) == IF s # <<>> /\ Head(s) = SPACE THEN LStrip(Tail(s)) ELSE s
RECURSIVE RStrip(_)
RStrip(s) == IF s # <<>> /\ s[Len(s)] = SPACE THEN RStrip(SubSeq(s, 1, Len(s) - 1)) ELSE s
\* str.strip()
Strip(s) == RStrip(LStrip(s))

\* the texts the transcription call can come back with
Transcripts == {<<>>, <<SPACE, "a">>}
\* what the user's clipboard can hold before the first paste
UserClipboards == {None, Some(<<>>), Some(<<"v">>)}

VARIABLES
    now,                         \* time.time()
    opt_pressed, last_opt_press_time, last_opt_event_time, waiting_for_second_tap,
    recording, is_transcribing, audio_data,
    window_visible, status_label,
    restore_clipboard, previous_clipboard_content, clipboard,
    lpc,                         \* listener thread: where on_press / on_release stands
    rpc,                         \* recording thread (record_audio)
    cb,                          \* the audio callback invocation in progress
    wk,                          \* transcription workers, in the order they were started
    \* observation only (never read by the program):
    sessions,                    \* start_recording calls so far
    nblocks,                     \* blocks the device has delivered so far
    delivered,                   \* blocks handed to audio_callback before stop_recording was called
    keystrokes,                  \* Cmd+V injections: who pasted what
    cancelled,                   \* workers whose transcription was in flight at an honoured Escape
    clip0,                       \* the clipboard before any paste
    last_act,                    \* what the last key event did
    scen,                        \* how far the delivered events match Scenario
    accepted_at,                 \* when the last Press and the last Release were accepted (-1: never)
    dt,                          \* progress of a fresh Press, Release, Press gesture
    order,                       \* what the start_recording / transcribe_and_paste call under way
                                 \* (or the last one) has done so far: "show", "start"
    taps                         \* accepted Option presses with the key up since the last
                                 \* recording was stopped (2: two or more)

gest == <<opt_pressed, last_opt_press_time, last_opt_event_time, waiting_for_second_tap>>
gest_but_event == <<opt_pressed, last_opt_press_time, waiting_for_second_tap>>
sess == <<recording, is_transcribing, audio_data>>
pres == <<window_visible, status_label>>
clip == <<restore_clipboard, previous_clipboard_content, clipboard, clip0>>
thrd == <<rpc, cb, nblocks, delivered>>
obs  == <<sessions, keystrokes, cancelled>>
mon  == <<last_act, scen, accepted_at, dt, order, taps>>
vars == <<now, gest, sess, pres, clip, lpc, thrd, wk, obs, mon>>

\* the events of the scenario "Press@0.0, Release@0.02, Press@0.3, Release@1.5"
Scenario == << [kind |-> "press", at |-> 0], [kind |-> "release", at |-> 2],
               [kind |-> "press", at |-> 30], [kind |-> "release", at |-> 150] >>

NoAct == [kind |-> "none", t |-> 0, accepted |-> FALSE, started |-> FALSE, stopped |-> FALSE,
          pressed |-> FALSE, waiting |-> FALSE, rec |-> FALSE, since_press |-> 0,
          after_esc |-> FALSE, raised |-> FALSE]

Init ==
    /\ now = StartTime
    /\ opt_pressed = FALSE
    /\ last_opt_press_time = 0
    /\ last_opt_event_time = 0
    /\ waiting_for_second_tap = FALSE
    /\ recording = FALSE
    /\ is_transcribing = FALSE
    /\ audio_data = <<>>
    /\ window_visible = FALSE
    /\ status_label = "Recording"
    /\ restore_clipboard \in BOOLEAN
    /\ previous_clipboard_content = None
    /\ clipboard \in UserClipboards
    /\ clip0 = clipboard
    /\ lpc = "idle"
    /\ rpc = "none"
    /\ cb = [pc |-> "idle", block |-> 0]
    /\ wk = <<>>
    /\ sessions = 0
    /\ nblocks = 0
    /\ delivered = <<>>
    /\ keystrokes = <<>>
    /\ cancelled = {}
    /\ last_act = NoAct
    /\ scen = 0
    /\ accepted_at = [press |-> -1, release |-> -1]
    /\ dt = [phase |-> 0, t0 |-> 0, n0 |-> 0, t1 |-> 0]
    /\ order = <<>>
    /\ taps = 0

\* time passes between two key events
Tick ==
    /\ \E t \in Instants : t > now /\ now' = t
    /\ UNCHANGED <<gest, sess, pres, clip, lpc, thrd, wk, obs, mon>>

(***************************************************************************)
(* The listener thread.                                                    *)
(***************************************************************************)

\* a debounce that measures from the last first tap instead of the last accepted event
DebouncedSincePress(t) == t - last_opt_press_time < min_event_interval

\* "Prevent duplicate events": the event is dropped
Debounced(t) == t - last_opt_event_time < min_event_interval

\* a tap window that excludes its end
WithinTapWindowStrict(t) == t - last_opt_press_time < opt_tap_threshold

\* a tap window that never expires
WithinTapWindowAlways(t) == TRUE

\* "Check second tap": the press falls in the tap window of the first tap
WithinTapWindow(t) == t - last_opt_press_time <= opt_tap_threshold

\* on_release: the tap window of the first tap has expired
TapExpired(t) == t - last_opt_press_time > opt_tap_threshold

\* an Escape that is a cancel only while a transcription is flagged
EscapeOnlyTranscribing == is_transcribing

\* the condition under which on_press treats Escape as a cancel
EscapeHonoured == recording \/ is_transcribing

\* the press starts a recording
PressStarts(t) ==
    ~opt_pressed /\ waiting_for_second_tap /\ WithinTapWindow(t) /\ ~recording

\* the workers whose transcription is in flight and has not injected its keystroke
InFlight == {w \in 1..Len(wk) : wk[w].pc \in {"concat", "call", "check", "complete",
                                             "paste_save", "paste_clear", "paste_set", "paste_key"}}

\* the observation of one Option event
Act(kind, accepted, started, stopped) ==
    [kind |-> kind, t |-> now, accepted |-> accepted, started |-> started, stopped |-> stopped,
     pressed |-> opt_pressed, waiting |-> waiting_for_second_tap, rec |-> recording,
     since_press |-> now - last_opt_press_time,
     after_esc |-> last_act.kind = "esc" /\ last_act.stopped, raised |-> FALSE]

\* the delivered events still match Scenario, or no longer do (-1)
ScenNext(kind) ==
    IF scen >= 0 /\ scen < Len(Scenario)
          /\ Scenario[scen + 1].kind = kind /\ StartTime + Scenario[scen + 1].at = now
    THEN scen + 1 ELSE -1

\* the Press, Release, Press gesture that starts at a fresh gesture state
DtNext(kind, accepted) ==
    IF ~accepted THEN dt
    ELSE IF kind = "press" /\ dt.phase = 2
         THEN [dt EXCEPT !.phase = 3, !.t1 = now]
    ELSE IF kind = "release" /\ dt.phase = 1
         THEN [dt EXCEPT !.phase = 2]
    ELSE IF kind = "press" /\ ~opt_pressed /\ ~waiting_for_second_tap
         THEN [phase |-> 1, t0 |-> now, n0 |-> sessions, t1 |-> 0]
    ELSE [phase |-> 0, t0 |-> 0, n0 |-> 0, t1 |-> 0]

\* a start_recording that starts the capture thread before it shows the window
sr_steps_swapped == <<"sr_thread", "sr_show">>

\* start_recording after line 188: the window is shown (lines 195-202), then the capture
\* thread is created and started (lines 204-210)
sr_steps == <<"sr_show", "sr_thread">>

\* where start_recording stands after step s ("sr_end": it has returned to on_press)
sr_after(s) == IF s = sr_steps[1] THEN sr_steps[2] ELSE "sr_end"

\* the count of taps, saturating at two
OneMoreTap == IF taps < 2 THEN taps + 1 ELSE 2

\* on_press, Option key (lines 128-153), up to line 188 of start_recording
on_press_option ==
    /\ lpc = "idle"
    /\ scen' = ScenNext("press")
    /\ IF Debounced(now)
       THEN /\ last_act' = Act("press", FALSE, FALSE, FALSE)
            /\ dt' = DtNext("press", FALSE)
            /\ UNCHANGED <<now, gest, sess, pres, clip, lpc, thrd, wk, obs, accepted_at,
                           order, taps>>
       ELSE /\ last_opt_event_time' = now
            /\ dt' = DtNext("press", TRUE)
            /\ accepted_at' = [accepted_at EXCEPT !.press = now]
            /\ IF opt_pressed
               THEN /\ last_act' = Act("press", TRUE, FALSE, FALSE)
                    /\ UNCHANGED <<now, opt_pressed, last_opt_press_time,
                                   waiting_for_second_tap, sess, pres, clip, lpc, thrd, wk, obs,
                                   order, taps>>
               ELSE /\ taps' = OneMoreTap
                    /\ IF ~waiting_for_second_tap \/ ~WithinTapWindow(now)
                       THEN \* first tap, or new first tap; line 154
                            /\ last_opt_press_time' = now
                            /\ waiting_for_second_tap' = TRUE
                            /\ opt_pressed' = TRUE
                            /\ last_act' = Act("press", TRUE, FALSE, FALSE)
                            /\ UNCHANGED <<now, sess, pres, clip, lpc, thrd, wk, obs, order>>
                       ELSE IF PressStarts(now)
                       THEN \* start_recording, lines 187-188
                            /\ sessions < MaxSessions
                            /\ recording' = TRUE
                            /\ audio_data' = <<>>
                            /\ delivered' = <<>>
                            /\ sessions' = sessions + 1
                            /\ order' = <<>>
                            /\ lpc' = sr_steps[1]
                            /\ last_act' = Act("press", TRUE, TRUE, FALSE)
                            /\ UNCHANGED <<now, gest_but_event, is_transcribing, pres, clip,
                                           rpc, cb, nblocks, wk, keystrokes, cancelled>>
                       ELSE \* line 154
                            /\ opt_pressed' = TRUE
                            /\ last_act' = Act("press", TRUE, FALSE, FALSE)
                            /\ UNCHANGED <<now, last_opt_press_time, waiting_for_second_tap,
                                           sess, pres, clip, lpc, thrd, wk, obs, order>>

\* start_recording, lines 195-202: the recording window is shown
start_recording_show ==
    /\ lpc = "sr_show"
    /\ window_visible' = TRUE
    /\ status_label' = "Recording"
    /\ order' = Append(order, "show")
    /\ lpc' = sr_after("sr_show")
    /\ UNCHANGED <<now, gest, sess, clip, thrd, wk, obs, last_act, scen, accepted_at, dt, taps>>

\* start_recording, lines 204-210: the capture thread is created and started
start_recording_thread ==
    /\ lpc = "sr_thread"
    /\ rpc' = "opening"
    /\ order' = Append(order, "start")
    /\ lpc' = sr_after("sr_thread")
    /\ UNCHANGED <<now, gest, sess, pres, clip, cb, nblocks, delivered, wk, obs,
                   last_act, scen, accepted_at, dt, taps>>

\* a call of start_recording after line 188 raises (an AppKit call, or Thread.start):
\* on_press catches it at line 155 and returns
start_recording_raises ==
    /\ lpc \in {"sr_show", "sr_thread"}
    /\ lpc' = "idle"
    /\ last_act' = [last_act EXCEPT !.raised = TRUE]
    /\ UNCHANGED <<now, gest, sess, pres, clip, thrd, wk, obs, scen, accepted_at, dt, order, taps>>

\* on_press, line 154, after start_recording has returned
on_press_option_rest ==
    /\ lpc = "sr_end"
    /\ opt_pressed' = TRUE
    /\ lpc' = "idle"
    /\ UNCHANGED <<now, last_opt_press_time, last_opt_event_time, waiting_for_second_tap,
                   sess, pres, clip, thrd, wk, obs, mon>>

\* on_press, Escape (lines 120-126) up to the join of stop_recording
on_press_esc ==
    /\ lpc = "idle"
    /\ scen' = -1
    /\ last_act' = Act("esc", EscapeHonoured, FALSE, EscapeHonoured /\ recording)
    /\ cancelled' = IF EscapeHonoured /\ is_transcribing THEN cancelled \cup InFlight
                    ELSE cancelled
    /\ taps' = IF EscapeHonoured /\ recording THEN 0 ELSE taps
    /\ UNCHANGED order
    /\ IF ~EscapeHonoured
       THEN \* not the Option key either: return
            UNCHANGED <<now, gest, sess, pres, clip, lpc, thrd, wk, sessions, keystrokes, accepted_at, dt>>
       ELSE IF recording
       THEN \* stop_recording: recording = False, then join
            /\ recording' = FALSE
            /\ lpc' = "esc_join"
            /\ UNCHANGED <<now, gest, is_transcribing, audio_data, pres, clip, thrd, wk,
                           sessions, keystrokes, accepted_at, dt>>
       ELSE /\ is_transcribing' = FALSE
            /\ window_visible' = FALSE
            /\ UNCHANGED <<now, gest, recording, audio_data, status_label, clip, lpc, thrd, wk,
                           sessions, keystrokes, accepted_at, dt>>

\* stop_recording, lines 227-228: there is no recording thread, or join() returns
\* because the thread has ended
join_returns ==
    /\ lpc \in {"esc_join", "release_join"}
    /\ rpc \in {"none", "done", "failed"}
    /\ lpc' = IF lpc = "esc_join" THEN "esc_rest" ELSE "release_rest"
    /\ UNCHANGED <<now, gest, sess, pres, clip, thrd, wk, obs, mon>>

\* on_press, Escape, after stop_recording (lines 124-126)
on_press_esc_rest ==
    /\ lpc = "esc_rest"
    /\ is_transcribing' = FALSE
    /\ window_visible' = FALSE
    /\ cancelled' = IF is_transcribing THEN cancelled \cup InFlight ELSE cancelled
    /\ lpc' = "idle"
    /\ UNCHANGED <<now, gest, recording, audio_data, status_label, clip, thrd, wk,
                   sessions, keystrokes, mon>>

\* on_release, Option key (lines 163-182) up to the join of stop_recording
on_release_option ==
    /\ lpc = "idle"
    /\ scen' = ScenNext("release")
    /\ UNCHANGED order
    /\ IF Debounced(now)
       THEN /\ last_act' = Act("release", FALSE, FALSE, FALSE)
            /\ dt' = DtNext("release", FALSE)
            /\ UNCHANGED <<now, gest, sess, pres, clip, lpc, thrd, wk, obs, accepted_at, taps>>
       ELSE /\ last_opt_event_time' = now
            /\ dt' = DtNext("release", TRUE)
            /\ accepted_at' = [accepted_at EXCEPT !.release = now]
            /\ IF ~opt_pressed
               THEN /\ last_act' = Act("release", TRUE, FALSE, FALSE)
                    /\ UNCHANGED <<now, opt_pressed, last_opt_press_time,
                                   waiting_for_second_tap, sess, pres, clip, lpc, thrd, wk, obs,
                                   taps>>
               ELSE /\ opt_pressed' = FALSE
                    /\ IF recording
                       THEN \* stop_recording: recording = False, then join
                            /\ recording' = FALSE
                            /\ lpc' = "release_join"
                            /\ taps' = 0
                            /\ last_act' = Act("release", TRUE, FALSE, TRUE)
                            /\ UNCHANGED <<now, last_opt_press_time, waiting_for_second_tap,
                                           is_transcribing, audio_data, pres, clip, thrd, wk, obs>>
                       ELSE /\ waiting_for_second_tap' =
                                  IF waiting_for_second_tap /\ TapExpired(now)
                                  THEN FALSE ELSE waiting_for_second_tap
                            /\ last_act' = Act("release", TRUE, FALSE, FALSE)
                            /\ UNCHANGED <<now, last_opt_press_time, sess, pres, clip, lpc,
                                           thrd, wk, obs, taps>>

\* a worker that transcribe_and_paste has just started; frozen observes the frames of
\* the recording that was just stopped
NewWorker == [pc |-> "start", audio |-> <<>>, transcript |-> <<>>, text |-> <<>>,
              frozen |-> audio_data]

\* a transcribe_and_paste without its early return
NothingRecordedNever == FALSE

\* nothing was recorded: transcribe_and_paste returns at line 234
NothingRecorded == audio_data = <<>>

\* transcribe_and_paste, lines 230-234, called by on_release after stop_recording
transcribe_and_paste ==
    /\ lpc = "release_rest"
    /\ order' = <<>>
    /\ IF NothingRecorded
       THEN /\ window_visible' = FALSE
            /\ lpc' = "idle"
            /\ UNCHANGED status_label
       ELSE /\ lpc' = "tp_show"
            /\ UNCHANGED pres
    /\ UNCHANGED <<now, gest, sess, clip, thrd, wk, obs, last_act, scen, accepted_at, dt, taps>>

\* transcribe_and_paste, lines 284-289: "Show status before starting transcription"
transcribe_show ==
    /\ lpc = "tp_show"
    /\ window_visible' = TRUE
    /\ status_label' = "Transcribing"
    /\ order' = Append(order, "show")
    /\ lpc' = "tp_thread"
    /\ UNCHANGED <<now, gest, sess, clip, thrd, wk, obs, last_act, scen, accepted_at, dt, taps>>

\* transcribe_and_paste, line 292: the worker thread is started
transcribe_thread ==
    /\ lpc = "tp_thread"
    /\ wk' = Append(wk, NewWorker)
    /\ order' = Append(order, "start")
    /\ lpc' = "idle"
    /\ UNCHANGED <<now, gest, sess, pres, clip, thrd, obs, last_act, scen, accepted_at, dt, taps>>

(***************************************************************************)
(* The recording thread (record_audio) and the audio callback.             *)
(***************************************************************************)

\* sd.InputStream(...) opens
rec_open ==
    /\ rpc = "opening"
    /\ rpc' = "streaming"
    /\ UNCHANGED <<now, gest, sess, pres, clip, lpc, cb, nblocks, delivered, wk, obs, mon>>

\* sd.InputStream(...) raises (no input device): the thread ends with the exception
rec_open_fails ==
    /\ rpc = "opening"
    /\ rpc' = "failed"
    /\ UNCHANGED <<now, gest, sess, pres, clip, lpc, cb, nblocks, delivered, wk, obs, mon>>

\* the device hands the next block to audio_callback
cb_deliver ==
    /\ rpc = "streaming"
    /\ cb.pc = "idle"
    /\ nblocks < MaxBlocks
    /\ nblocks' = nblocks + 1
    /\ cb' = [pc |-> "check", block |-> nblocks + 1]
    /\ delivered' = IF recording THEN Append(delivered, nblocks + 1) ELSE delivered
    /\ UNCHANGED <<now, gest, sess, pres, clip, lpc, rpc, wk, obs, mon>>

\* audio_callback keeps the block
CallbackKeeps == recording

\* audio_callback, line 213: if self.recording
cb_check ==
    /\ cb.pc = "check"
    /\ cb' = IF CallbackKeeps THEN [cb EXCEPT !.pc = "append"] ELSE [pc |-> "idle", block |-> 0]
    /\ UNCHANGED <<now, gest, sess, pres, clip, lpc, rpc, nblocks, delivered, wk, obs, mon>>

\* audio_callback, line 214: self.audio_data.append(indata.copy())
cb_append ==
    /\ cb.pc = "append"
    /\ audio_data' = Append(audio_data, cb.block)
    /\ cb' = [pc |-> "idle", block |-> 0]
    /\ UNCHANGED <<now, gest, recording, is_transcribing, pres, clip, lpc, rpc, nblocks,
                   delivered, wk, obs, mon>>

\* record_audio sees self.recording false, leaves the with block (the stream is
\* closed once the callback in progress has returned) and ends
rec_exit ==
    /\ rpc = "streaming"
    /\ ~recording
    /\ cb.pc = "idle"
    /\ rpc' = "done"
    /\ UNCHANGED <<now, gest, sess, pres, clip, lpc, cb, nblocks, delivered, wk, obs, mon>>

(***************************************************************************)
(* A transcription worker (transcribe_work) and paste_text.                *)
(***************************************************************************)

Goto(w, pc) == [wk EXCEPT ![w].pc = pc]

\* line 237: self.is_transcribing = True
w_begin(w) ==
    /\ wk[w].pc = "start"
    /\ is_transcribing' = TRUE
    /\ wk' = Goto(w, "concat")
    /\ UNCHANGED <<now, gest, recording, audio_data, pres, clip, lpc, thrd, obs, mon>>

\* lines 238-242: np.concatenate(self.audio_data), which raises on an empty list
\* (outside the try: the thread ends there), and the WAV file
w_concat(w) ==
    /\ wk[w].pc = "concat"
    /\ wk' = IF audio_data = <<>> THEN Goto(w, "crashed")
             ELSE [wk EXCEPT ![w].pc = "call", ![w].audio = audio_data]
    /\ UNCHANGED <<now, gest, sess, pres, clip, lpc, thrd, obs, mon>>

\* lines 246-252: the transcription call returns a text
w_return(w) ==
    /\ wk[w].pc = "call"
    /\ \E r \in Transcripts : wk' = [wk EXCEPT ![w].pc = "check", ![w].transcript = r]
    /\ UNCHANGED <<now, gest, sess, pres, clip, lpc, thrd, obs, mon>>

\* lines 246-252: the transcription call raises; control goes to the finally block
w_raise(w) ==
    /\ wk[w].pc = "call"
    /\ wk' = Goto(w, "finally")
    /\ UNCHANGED <<now, gest, sess, pres, clip, lpc, thrd, obs, mon>>

\* the worker goes on to paste
ResultAccepted(w) == wk[w].transcript # <<>> /\ is_transcribing

\* line 254: if transcript.text and self.is_transcribing; line 255: strip
w_check(w) ==
    /\ wk[w].pc = "check"
    /\ wk' = IF ResultAccepted(w)
             THEN [wk EXCEPT ![w].pc = "complete", ![w].text = Strip(wk[w].transcript)]
             ELSE Goto(w, "finally")
    /\ UNCHANGED <<now, gest, sess, pres, clip, lpc, thrd, obs, mon>>

\* complete_transcription, line 261: hide the window
w_complete(w) ==
    /\ wk[w].pc = "complete"
    /\ window_visible' = FALSE
    /\ wk' = Goto(w, "paste_save")
    /\ UNCHANGED <<now, gest, sess, status_label, clip, lpc, thrd, obs, mon>>

\* paste_text, lines 298-299: remember the clipboard
paste_save(w) ==
    /\ wk[w].pc = "paste_save"
    /\ previous_clipboard_content' = IF restore_clipboard THEN clipboard
                                     ELSE previous_clipboard_content
    /\ wk' = Goto(w, "paste_clear")
    /\ UNCHANGED <<now, gest, sess, pres, restore_clipboard, clipboard, clip0, lpc, thrd,
                   obs, mon>>

\* paste_text, line 302: pasteboard.clearContents()
paste_clear(w) ==
    /\ wk[w].pc = "paste_clear"
    /\ clipboard' = None
    /\ wk' = Goto(w, "paste_set")
    /\ UNCHANGED <<now, gest, sess, pres, restore_clipboard, previous_clipboard_content, clip0,
                   lpc, thrd, obs, mon>>

\* paste_text, line 303: pasteboard.setString_forType_(text, ...)
paste_set(w) ==
    /\ wk[w].pc = "paste_set"
    /\ clipboard' = Some(wk[w].text)
    /\ wk' = Goto(w, "paste_key")
    /\ UNCHANGED <<now, gest, sess, pres, restore_clipboard, previous_clipboard_content, clip0,
                   lpc, thrd, obs, mon>>

\* paste_text, lines 309-316: Cmd+V, which pastes what the clipboard holds
paste_key(w) ==
    /\ wk[w].pc = "paste_key"
    /\ keystrokes' = Append(keystrokes, [w |-> w, content |-> clipboard])
    /\ wk' = Goto(w, "paste_restore")
    /\ UNCHANGED <<now, gest, sess, pres, clip, lpc, thrd, sessions, cancelled, mon>>

\* paste_text writes the previous content back
RestoreWanted == restore_clipboard /\ Truthy(previous_clipboard_content)

\* paste_text, lines 319-321: the test and pasteboard.clearContents()
paste_restore(w) ==
    /\ wk[w].pc = "paste_restore"
    /\ IF RestoreWanted
       THEN /\ clipboard' = None
            /\ wk' = Goto(w, "restore_set")
       ELSE /\ wk' = Goto(w, "finally")
            /\ UNCHANGED clipboard
    /\ UNCHANGED <<now, gest, sess, pres, restore_clipboard, previous_clipboard_content, clip0,
                   lpc, thrd, obs, mon>>

\* paste_text, line 322: setString_forType_(self.previous_clipboard_content, ...); with
\* None it raises, and complete_transcription catches the exception
restore_set(w) ==
    /\ wk[w].pc = "restore_set"
    /\ clipboard' = IF previous_clipboard_content = None THEN clipboard
                    ELSE previous_clipboard_content
    /\ wk' = Goto(w, "finally")
    /\ UNCHANGED <<now, gest, sess, pres, restore_clipboard, previous_clipboard_content, clip0,
                   lpc, thrd, obs, mon>>

\* lines 280-282: the finally block
w_finally(w) ==
    /\ wk[w].pc = "finally"
    /\ is_transcribing' = FALSE
    /\ wk' = Goto(w, "done")
    /\ UNCHANGED <<now, gest, recording, audio_data, pres, clip, lpc, thrd, obs, mon>>

transcribe_work ==
    \/ \E w \in 1..Len(wk) : w_begin(w)
    \/ \E w \in 1..Len(wk) : w_concat(w)
    \/ \E w \in 1..Len(wk) : w_return(w)
    \/ \E w \in 1..Len(wk) : w_raise(w)
    \/ \E w \in 1..Len(wk) : w_check(w)
    \/ \E w \in 1..Len(wk) : w_complete(w)
    \/ \E w \in 1..Len(wk) : w_finally(w)

paste_text ==
    \/ \E w \in 1..Len(wk) : paste_save(w)
    \/ \E w \in 1..Len(wk) : paste_clear(w)
    \/ \E w \in 1..Len(wk) : paste_set(w)
    \/ \E w \in 1..Len(wk) : paste_key(w)
    \/ \E w \in 1..Len(wk) : paste_restore(w)
    \/ \E w \in 1..Len(wk) : restore_set(w)

Listener ==
    \/ on_press_option \/ start_recording_show \/ start_recording_thread
    \/ start_recording_raises \/ on_press_option_rest
    \/ on_press_esc \/ join_returns \/ on_press_esc_rest
    \/ on_release_option \/ transcribe_and_paste \/ transcribe_show \/ transcribe_thread

Recorder ==
    \/ rec_open \/ rec_open_fails \/ cb_deliver \/ cb_check \/ cb_append \/ rec_exit

Next ==
    \/ Tick
    \/ Listener
    \/ Recorder
    \/ transcribe_work
    \/ paste_text

Spec == Init /\ [][Next]_vars

(***************************************************************************)
(* Properties.                                                             *)
(***************************************************************************)

Pasted(w) == \E i \in 1..Len(keystrokes) : keystrokes[i].w = w
InPaste(w) == wk[w].pc \in {"paste_save", "paste_clear", "paste_set", "paste_key",
                            "paste_restore", "restore_set"}

\* C1: once Escape has been honoured while a transcription was in flight, the worker
\* of that transcription never injects the paste keystroke, whatever it had already
\* checked and whatever session was started afterwards.
C1_CancelledNeverPastes ==
    \A i \in 1..Len(keystrokes) : keystrokes[i].w \notin cancelled

\* C2: a paste_text call that ran alone with restore_clipboard = true and a prior
\* clipboard string V injected the keystroke while the clipboard held the text, and
\* has left the clipboard equal to V when it returns (V = "" included).
C2_ClipboardRestored ==
    \A w \in 1..Len(wk) :
        ( /\ restore_clipboard
          /\ clip0 # None
          /\ wk[w].pc \in {"finally", "done"}
          /\ Pasted(w)
          /\ \A v \in 1..Len(wk) : v # w => ~Pasted(v) /\ ~InPaste(v) )
        => /\ clipboard = clip0
           /\ keystrokes[1].content = Some(wk[w].text)

\* C3: when the Option events delivered since the start are Press@0.0, Release@0.02,
\* Press@0.3 (and then Release@1.5), the third event has started recording and the
\* fourth has stopped it.
C3_ScenarioRecords ==
    /\ scen = 3 => last_act.started
    /\ scen = 4 => last_act.stopped

\* C4: a release of the Option key that arrives while recording is active stops the
\* recording.
C4_ReleaseStopsRecording ==
    (last_act.kind = "release" /\ last_act.rec) => last_act.stopped

\* C5: from a fresh gesture state, an accepted Press at t0, an accepted Release and an
\* accepted Press at t1 with t1 - t0 <= opt_tap_threshold make exactly one
\* start_recording call, and it is made by the second Press.
C5_DoubleTapStartsOnce ==
    /\ dt.phase \in {1, 2} => sessions = dt.n0
    /\ (dt.phase = 3 /\ dt.t1 - dt.t0 <= opt_tap_threshold) => sessions = dt.n0 + 1

\* C5, its case: the second Press came exactly opt_tap_threshold after the first
C5_Witness ==
    dt.phase = 3 /\ dt.t1 - dt.t0 = opt_tap_threshold /\ sessions = dt.n0 + 1

\* C6 as stated: an accepted Press that arrives while waiting_for_second_tap is true
\* and more than opt_tap_threshold after last_opt_press_time starts no recording and
\* becomes the first tap (last_opt_press_time is its time, waiting_for_second_tap true).
C6_Original ==
    ( /\ last_act.kind = "press" /\ last_act.accepted
      /\ last_act.waiting /\ last_act.since_press > opt_tap_threshold )
    => /\ ~last_act.started
       /\ last_opt_press_time = last_act.t
       /\ waiting_for_second_tap

\* C6 amended: the same, for a Press that arrives while opt_pressed is false.
C6_ExpiredTapRestarts ==
    ( /\ last_act.kind = "press" /\ last_act.accepted /\ ~last_act.pressed
      /\ last_act.waiting /\ last_act.since_press > opt_tap_threshold )
    => /\ ~last_act.started
       /\ last_opt_press_time = last_act.t
       /\ waiting_for_second_tap

\* C6, its case: such a Press has been handled
C6_Witness ==
    /\ last_act.kind = "press" /\ last_act.accepted /\ ~last_act.pressed
    /\ last_act.waiting /\ last_act.since_press > opt_tap_threshold
    /\ last_opt_press_time = last_act.t

\* C7: an Option Press (Release) handled less than min_event_interval after the last
\* accepted Press (Release) starts and stops nothing and leaves opt_pressed,
\* waiting_for_second_tap, last_opt_press_time and last_opt_event_time unchanged.
C7_SameClassDebounce ==
    [][ ( \/ /\ on_press_option
             /\ accepted_at.press >= 0
             /\ now - accepted_at.press < min_event_interval
          \/ /\ on_release_option
             /\ accepted_at.release >= 0
             /\ now - accepted_at.release < min_event_interval )
        => UNCHANGED <<gest, sess, pres, lpc, rpc, wk, sessions>> ]_vars

\* C7, its case: a Press has been dropped less than min_event_interval after an
\* accepted Press
C7_Witness ==
    /\ last_act.kind = "press" /\ ~last_act.accepted
    /\ accepted_at.press >= 0
    /\ last_act.t - accepted_at.press < min_event_interval

\* C8: when stop_recording has returned, audio_data is the sequence of the blocks that
\* were delivered to audio_callback before stop_recording was called.
C8_StopReturnsDelivered ==
    lpc \in {"esc_rest", "release_rest"} => audio_data = delivered

\* C9: when on_release has stopped a recording and audio_data is empty,
\* transcribe_and_paste hides the window, starts no worker, leaves is_transcribing as
\* it was and pastes nothing.
C9_EmptyRecording ==
    [][ (transcribe_and_paste /\ audio_data = <<>>)
        => /\ window_visible' = FALSE
           /\ wk' = wk
           /\ is_transcribing' = is_transcribing
           /\ keystrokes' = keystrokes ]_vars

\* C9, its case: an Option release has stopped a recording that captured nothing, and
\* no worker exists
C9_Witness ==
    /\ last_act.kind = "release" /\ last_act.stopped
    /\ lpc = "idle" /\ audio_data = <<>>
    /\ ~window_visible /\ ~is_transcribing /\ wk = <<>>

\* C10: after the input stream failed to open, recording is false and the recording
\* window is not showing.
C10_DeviceErrorIdle ==
    rpc = "failed" => ~recording /\ ~window_visible

\* a worker whose result has not been handled yet
Live(w) == wk[w].pc \notin {"finally", "done", "crashed"}

\* C11: a recording is never active while a transcription worker is in flight, and at
\* most one transcription worker is in flight.
C11_OneSessionLive ==
    /\ recording => \A w \in 1..Len(wk) : ~Live(w)
    /\ \A v, w \in 1..Len(wk) : (Live(v) /\ Live(w)) => v = w

\* C12: every start of recording has its own double tap: when a Press starts a
\* recording, it is at least the second accepted Press with the key up since the last
\* recording was stopped or cancelled (stated for the first recording and for those
\* that follow a recording whose capture thread was started).
C12_OwnDoubleTap ==
    [][ (on_press_option /\ last_act'.started /\ (sessions = 0 \/ rpc # "none"))
        => taps' = 2 ]_vars

\* C13: when the only session's transcription call has raised or returned empty text
\* and its worker has ended, nothing was pasted, is_transcribing is false and the
\* status window is hidden.
C13_FailureEndsIdle ==
    ( /\ sessions = 1 /\ Len(wk) = 1 /\ ~recording /\ lpc = "idle"
      /\ wk[1].pc = "done" /\ wk[1].transcript = <<>> )
    => /\ keystrokes = <<>>
       /\ ~is_transcribing
       /\ ~window_visible

\* C16: the audio a worker transcribes is the frame sequence that was frozen when its
\* own recording was stopped, and the worker always gets to transcribe it.
C16_WorkerAudioFrozen ==
    \A w \in 1..Len(wk) :
        /\ wk[w].pc # "crashed"
        /\ wk[w].pc \notin {"start", "concat"} => wk[w].audio = wk[w].frozen

\* C17: with restore_clipboard = true and a non-empty user clipboard V, once every
\* paste_text call that was started has returned, the clipboard equals V.
C17_ClipboardRestoredAfterAll ==
    ( /\ restore_clipboard /\ Truthy(clip0)
      /\ keystrokes # <<>>
      /\ \A w \in 1..Len(wk) : ~InPaste(w) )
    => clipboard = clip0

\* C14: an Escape press that arrives while the only session's transcription worker has
\* not finished handling its result is honoured: is_transcribing is false and the
\* window is hidden after it.
C14_EscapeAlwaysCancels ==
    [][ (on_press_esc /\ sessions = 1 /\ Len(wk) = 1 /\ Live(1))
        => (last_act'.accepted /\ ~is_transcribing' /\ ~window_visible') ]_vars

\* C15: an Escape press while recording sets recording false and waits for the capture
\* thread; when it has ended the window is hidden; no worker is started and nothing is
\* pasted, neither by the Escape nor by the release of the still-held Option key that
\* follows it.
C15_EscapeStopsRecording ==
    [][ /\ (on_press_esc /\ recording)
           => (~recording' /\ lpc' = "esc_join" /\ wk' = wk /\ keystrokes' = keystrokes)
        /\ on_press_esc_rest
           => ( /\ rpc \in {"none", "done", "failed"}
                /\ ~recording' /\ ~window_visible'
                /\ wk' = wk /\ keystrokes' = keystrokes )
        /\ (on_release_option /\ opt_pressed /\ last_act'.accepted /\ last_act'.after_esc)
           => (~recording' /\ lpc' = "idle" /\ wk' = wk /\ keystrokes' = keystrokes) ]_vars

\* C15, its case: the Option key held since the start of a recording was released
\* right after an Escape had stopped that recording
C15_Witness ==
    /\ last_act.kind = "release" /\ last_act.accepted /\ last_act.pressed
    /\ last_act.after_esc
    /\ sessions = 1 /\ ~recording /\ ~window_visible
    /\ wk = <<>> /\ keystrokes = <<>>

\* the keystrokes worker w has injected
PastesOf(w) == {i \in 1..Len(keystrokes) : keystrokes[i].w = w}

\* C18: a worker that has ended, whose transcription returned non-empty text and was not
\* in flight at any honoured Escape, has pasted exactly once.
C18_UncancelledPastedOnce ==
    \A w \in 1..Len(wk) :
        (wk[w].pc = "done" /\ wk[w].transcript # <<>> /\ w \notin cancelled)
        => Cardinality(PastesOf(w)) = 1

\* C19: in start_recording and in transcribe_and_paste the window is shown before the
\* thread is started and never after: a call has shown nothing yet, or shown the
\* window, or shown the window and then started its thread.
C19_ShowBeforeStart ==
    /\ order \in {<<>>, <<"show">>, <<"show", "start">>}
    /\ lpc = "sr_end" => order = <<"show", "start">>
    /\ lpc = "tp_thread" => order = <<"show">>

\* C19, its case: a recording was shown and started, and after its release the
\* "Transcribing" status was shown and the worker started
C19_Witness ==
    /\ sessions = 1 /\ lpc = "idle"
    /\ order = <<"show", "start">>
    /\ Len(wk) = 1 /\ wk[1].pc = "start"
    /\ window_visible /\ status_label = "Transcribing"

\* C20: after an accepted Press whose start_recording raised, the handler has returned,
\* recording is false and opt_pressed is true.
C20_RaiseLeavesIdle ==
    ( /\ lpc = "idle"
      /\ last_act.kind = "press" /\ last_act.accepted /\ last_act.raised )
    => (~recording /\ opt_pressed)

====
